---- MODULE Spec2Model ----
(***************************************************************************)
(* Model of the boundary / ROI tool of budulus/cells2d3 in its five        *)
(* source variants:                                                        *)
(*   "app"   src/app.py            desktop MCD viewer, two boundary styles *)
(*   "main"  src/main.py           desktop image viewer, linear style only *)
(*   "web"   src/web/app.py        Gradio tool                             *)
(*   "proc"  src/web/processor.py  ImageProcessor                          *)
(*   "web2"  src/web2/app.py       Flask API with module globals           *)
(* Coordinates are fixed-point numbers: one pixel is Scale units.          *)
(***************************************************************************)
EXTENDS Integers, Sequences, FiniteSets, TLC

VARIABLES variant, points, roi_lines, shifted_points, base_pixmap,
          drawing_enabled, pixel_um, depth_um, display, op, resp

vars == <<variant, points, roi_lines, shifted_points, base_pixmap,
          drawing_enabled, pixel_um, depth_um, display, op, resp>>

core == <<points, roi_lines, shifted_points>>

(* ----------------------------- bounds ---------------------------------- *)

\* longest primary point sequence a user builds click by click in Spec
MaxPoints == 2

\* longest drawn boundary the offset construction is applied to in SpecCreate
MaxLen == 3

\* fixed-point resolution: units per pixel
Scale == 100

(* ------------------------ program constants ---------------------------- *)

\* removal tolerance in pixels
Tolerance == 10

\* number of samples of a fitted spline
SampleCount == 500

\* smallest number of points splprep accepts with its default degree k = 3
MinFitPoints == 4

\* initial values of the Flask globals pixel_um and depth_um
InitPixelUm == 1
InitDepthUm == 10

(* ----------------------------- inputs ---------------------------------- *)

Variants == {"app", "main", "web", "proc", "web2"}
Desktop  == {"app", "main"}

Clients == {"A", "B"}

Pt(x, y) == [x |-> x * Scale, y |-> y * Scale]

\* pixel positions a user can click; the scene rectangle is 0..20 x 0..10.
\* (0,0)-(10,0) is horizontal, (10,0)-(10,8) vertical, (0,0)-(10,8) oblique
SceneW == 20
SceneH == 10
Positions == {Pt(0, 0), Pt(10, 0), Pt(10, 8)}
ClickPositions == Positions \cup {Pt(0 - 10, 0)}

\* positions of right clicks and /remove_point requests
RemovePositions == {Pt(0, 0), Pt(10, 0)}

\* texts typed into the pixel/um and depth fields, as character sequences
Txt1   == <<"1">>
Txt2   == <<"2">>
Txt5   == <<"5">>
Txt10  == <<"1", "0">>
TxtNeg == <<"-", "5">>
TxtBad == <<"a", "b", "c">>
TxtNone == <<>>

Str(s)  == [t |-> "str", s |-> s]
Num(s)  == [t |-> "num", s |-> s]
Null    == [t |-> "null", s |-> TxtNone]
Missing == [t |-> "missing", s |-> TxtNone]

NoPos == [x |-> 0 - 1, y |-> 0 - 1]

Abs(a) == IF a < 0 THEN 0 - a ELSE a

\* integer division of a by b > 0 rounded to the nearest integer
RoundDiv(a, b) ==
    IF a >= 0 THEN (2 * a + b) \div (2 * b)
    ELSE 0 - ((2 * (0 - a) + b) \div (2 * b))

\* square root of n >= 0 rounded to the nearest integer
Sqrt(n) ==
    LET r == CHOOSE k \in 0..(n + 1) : k * k <= n /\ n < (k + 1) * (k + 1)
    IN  IF n - r * r <= r THEN r ELSE r + 1

(* ------------------------- float(text) --------------------------------- *)

Digits == <<"0", "1", "2", "3", "4", "5", "6", "7", "8", "9">>

IsDigit(c) == \E d \in 1..10 : Digits[d] = c

DigitVal(c) == (CHOOSE d \in 1..10 : Digits[d] = c) - 1

RECURSIVE DigitsVal(_)
DigitsVal(s) ==
    IF s = <<>> THEN 0
    ELSE 10 * DigitsVal(SubSeq(s, 1, Len(s) - 1)) + DigitVal(s[Len(s)])

AllDigits(s) == s # <<>> /\ \A i \in 1..Len(s) : IsDigit(s[i])

\* float() of a text: an optional sign followed by digits parses, every
\* other text of the model raises ValueError
Parses(s) ==
    \/ AllDigits(s)
    \/ Len(s) >= 2 /\ s[1] \in {"-", "+"} /\ AllDigits(Tail(s))

TextVal(s) ==
    IF AllDigits(s) THEN DigitsVal(s)
    ELSE IF s[1] = "-" THEN 0 - DigitsVal(Tail(s))
    ELSE DigitsVal(Tail(s))

\* float(v) of a value: "ok", "ValueError" or "TypeError"
FloatOutcome(v) ==
    IF v.t = "num" THEN "ok"
    ELSE IF v.t = "str" THEN (IF Parses(v.s) THEN "ok" ELSE "ValueError")
    ELSE "TypeError"

FloatVal(v) == TextVal(v.s)

(* --------------------------- geometry ---------------------------------- *)

RECURSIVE SumX(_)
SumX(pts) == IF pts = <<>> THEN 0 ELSE Head(pts).x + SumX(Tail(pts))

RECURSIVE SumY(_)
SumY(pts) == IF pts = <<>> THEN 0 ELSE Head(pts).y + SumY(Tail(pts))

RECURSIVE SumXX(_)
SumXX(pts) ==
    IF pts = <<>> THEN 0 ELSE Head(pts).x * Head(pts).x + SumXX(Tail(pts))

RECURSIVE SumXY(_)
SumXY(pts) ==
    IF pts = <<>> THEN 0 ELSE Head(pts).x * Head(pts).y + SumXY(Tail(pts))

\* LinearRegression().fit(x, y).coef_[0] in fixed point: the least-squares
\* slope of y on x; the minimum-norm solution 0 when every x is the same
slope(pts) ==
    LET n   == Len(pts)
        sxx == n * SumXX(pts) - SumX(pts) * SumX(pts)
        sxy == n * SumXY(pts) - SumX(pts) * SumY(pts)
    IN  IF sxx = 0 THEN 0 ELSE RoundDiv(sxy * Scale, sxx)

\* unit_normal without the division by norm
unit_normal_raw(pts) == [x |-> 0 - slope(pts), y |-> Scale]

\* (normal_x / norm, normal_y / norm) in fixed point
unit_normal(pts) ==
    LET normal_x == 0 - slope(pts)
        normal_y == Scale
        norm     == Sqrt(normal_x * normal_x + normal_y * normal_y)
    IN  [x |-> RoundDiv(normal_x * Scale, norm),
         y |-> RoundDiv(normal_y * Scale, norm)]

\* Shift that moves the point against the normal
Shift_back(p, un, depth_pixels) ==
    [x |-> p.x - un.x * depth_pixels, y |-> p.y - un.y * depth_pixels]

\* point + unit_normal * depth_pixels
Shift(p, un, depth_pixels) ==
    [x |-> p.x + un.x * depth_pixels, y |-> p.y + un.y * depth_pixels]

\* (p - q).manhattanLength()
manhattanLength(p, q) == Abs(p.x - q.x) + Abs(p.y - q.y)

sceneRect_contains(p) ==
    /\ 0 <= p.x /\ p.x <= SceneW * Scale
    /\ 0 <= p.y /\ p.y <= SceneH * Scale

(* ------------------------- curve fitting ------------------------------- *)

NoCurve == [kind |-> "none", n |-> 0, pts |-> <<>>]

\* splprep([x, y], s=0) raises when there are no more points than the
\* degree 3, or when two consecutive points coincide
splprep_ok(pts) ==
    /\ Len(pts) >= MinFitPoints
    /\ \A i \in 1..(Len(pts) - 1) : pts[i] # pts[i + 1]

\* the curve sampled from the interpolating spline: SampleCount samples
\* that run from the first to the last of the points it passes through
Fitted(pts) == [kind |-> "spline", n |-> SampleCount, pts |-> pts]

Polyline(pts) == [kind |-> "polyline", n |-> Len(pts), pts |-> pts]

\* create_bezier_spline of the desktop and Gradio variants
create_bezier_spline(pts) ==
    IF Len(pts) < 2 THEN NoCurve
    ELSE IF splprep_ok(pts) THEN Fitted(pts)
    ELSE Polyline(pts)

\* create_bezier_spline of the Flask variant
create_bezier_spline_web2(pts) ==
    IF Len(pts) < 2 THEN NoCurve
    ELSE IF splprep_ok(pts) THEN Fitted(pts)
    ELSE NoCurve

(* --------------------------- rendering --------------------------------- *)

NoDisplay == [points |-> <<>>, spline |-> NoCurve, shifted |-> NoCurve,
              roi_lines |-> <<>>, drawn |-> FALSE]

\* update_display / draw_on_image: what is painted over the image
Draw(pts, shp, roi) ==
    [points    |-> pts,
     spline    |-> IF Len(pts) >= 2 THEN create_bezier_spline(pts)
                   ELSE NoCurve,
     shifted   |-> IF Len(shp) >= 2 THEN create_bezier_spline(shp)
                   ELSE NoCurve,
     roi_lines |-> roi,
     drawn     |-> TRUE]

update_display(pixmap, pts, shp, roi) ==
    IF pixmap THEN Draw(pts, shp, roi) ELSE display

Op(name, client, pos, pixel, depth, style) ==
    [name |-> name, client |-> client, pos |-> pos,
     pixel |-> pixel, depth |-> depth, style |-> style]

Plain(name) == Op(name, "A", NoPos, Missing, Missing, "none")

(* ----------------------- offset construction --------------------------- *)

\* linear_roi taking the second point for the last one
linear_roi_second(pts, depth_pixels) ==
    LET un          == unit_normal(pts)
        first_point == pts[1]
        last_point  == pts[2]
        shifted_first_point == Shift(first_point, un, depth_pixels)
        shifted_last_point  == Shift(last_point, un, depth_pixels)
    IN  << <<first_point, shifted_first_point>>,
           <<shifted_first_point, shifted_last_point>>,
           <<shifted_last_point, last_point>> >>

\* the three segments first -> shifted first -> shifted last -> last
linear_roi(pts, depth_pixels) ==
    LET un          == unit_normal(pts)
        first_point == pts[1]
        last_point  == pts[Len(pts)]
        shifted_first_point == Shift(first_point, un, depth_pixels)
        shifted_last_point  == Shift(last_point, un, depth_pixels)
    IN  << <<first_point, shifted_first_point>>,
           <<shifted_first_point, shifted_last_point>>,
           <<shifted_last_point, last_point>> >>

\* shift_points whose loop stops one point early
shift_points_short(pts, depth_pixels) ==
    LET un == unit_normal(pts)
    IN  [i \in 1..Len(pts) |->
            IF i = Len(pts) THEN pts[i] ELSE Shift(pts[i], un, depth_pixels)]

\* every point of the boundary moved by unit_normal * depth_pixels
shift_points(pts, depth_pixels) ==
    LET un == unit_normal(pts)
    IN  [i \in 1..Len(pts) |-> Shift(pts[i], un, depth_pixels)]

\* curve_roi that joins each end of the boundary to the other end's offset
curve_roi_crossed(pts, shp) ==
    << <<pts[1], shp[Len(shp)]>>, <<pts[Len(pts)], shp[1]>> >>

\* the two connectors of the parallel-curve style
curve_roi(pts, shp) ==
    << <<pts[1], shp[1]>>, <<pts[Len(pts)], shp[Len(shp)]>> >>

\* remove_near that drops only the first point within the tolerance
remove_near_first(pts, pos) ==
    LET near == {i \in 1..Len(pts) :
                    manhattanLength(pts[i], pos) <= Tolerance * Scale}
    IN  IF near = {} THEN pts
        ELSE LET k == CHOOSE i \in near : \A j \in near : i <= j
             IN  SubSeq(pts, 1, k - 1) \o SubSeq(pts, k + 1, Len(pts))

\* the points a right click at pos keeps (desktop variants)
remove_near(pts, pos) ==
    SelectSeq(pts, LAMBDA p : manhattanLength(p, pos) > Tolerance * Scale)

\* the points /remove_point at pos keeps (Flask variant)
remove_point_keep(pts, pos) ==
    SelectSeq(pts, LAMBDA p : \/ Abs(p.x - pos.x) > Tolerance * Scale
                              \/ Abs(p.y - pos.y) > Tolerance * Scale)

(* ------------------------------ Init ----------------------------------- *)

Init ==
    /\ variant \in Variants
    /\ points = <<>>
    /\ roi_lines = <<>>
    /\ shifted_points = <<>>
    /\ base_pixmap = FALSE
    /\ drawing_enabled = FALSE
    /\ pixel_um = InitPixelUm
    /\ depth_um = InitDepthUm
    /\ display = NoDisplay
    /\ op = Plain("init")
    /\ resp = "ok"

\* an operation that returns without touching the tool
Return(o, r) ==
    /\ op' = o
    /\ resp' = r
    /\ UNCHANGED <<variant, points, roi_lines, shifted_points, base_pixmap,
                   drawing_enabled, pixel_um, depth_um, display>>

(* ------------------- desktop: src/app.py, src/main.py ------------------ *)

\* load_image: the file dialog returns a file (chosen) or is cancelled
load_image(chosen) ==
    /\ variant \in Desktop
    /\ LET o == Plain("load_image")
       IN  IF ~chosen
           THEN Return(o, IF variant = "app" THEN "fault" ELSE "ignored")
           ELSE /\ base_pixmap' = TRUE
                /\ points' = <<>>
                /\ drawing_enabled' = TRUE
                /\ roi_lines' = <<>>
                /\ display' = update_display(TRUE, <<>>, shifted_points, <<>>)
                /\ op' = o
                /\ resp' = "ok"
                /\ UNCHANGED <<variant, shifted_points, pixel_um, depth_um>>

\* mousePressEvent with the left button that skips a point already present
mousePressLeftDedup(pos, checked, cap) ==
    /\ variant \in Desktop
    /\ LET o == Op("add", "A", pos, Missing, Missing, "none")
           i == Plain("mousePressEvent")
           present == \E k \in 1..Len(points) : points[k] = pos
       IN  IF ~drawing_enabled \/ ~base_pixmap THEN Return(i, "ignored")
           ELSE IF ~checked THEN Return(i, "ignored")
           ELSE IF ~sceneRect_contains(pos) THEN Return(i, "ignored")
           ELSE /\ Len(points) < cap
                /\ points' = IF present THEN points ELSE Append(points, pos)
                /\ display' = update_display(base_pixmap, points',
                                             shifted_points, roi_lines)
                /\ op' = o
                /\ resp' = "ok"
                /\ UNCHANGED <<variant, roi_lines, shifted_points, base_pixmap,
                               drawing_enabled, pixel_um, depth_um>>

\* mousePressEvent with the left button at pos; the user stops clicking once
\* the boundary has cap points
mousePressLeftUpTo(pos, checked, cap) ==
    /\ variant \in Desktop
    /\ LET o == Op("add", "A", pos, Missing, Missing, "none")
           i == Plain("mousePressEvent")
       IN  IF ~drawing_enabled \/ ~base_pixmap THEN Return(i, "ignored")
           ELSE IF ~checked THEN Return(i, "ignored")
           ELSE IF ~sceneRect_contains(pos) THEN Return(i, "ignored")
           ELSE /\ Len(points) < cap
                /\ points' = Append(points, pos)
                /\ display' = update_display(base_pixmap, points',
                                             shifted_points, roi_lines)
                /\ op' = o
                /\ resp' = "ok"
                /\ UNCHANGED <<variant, roi_lines, shifted_points, base_pixmap,
                               drawing_enabled, pixel_um, depth_um>>

mousePressLeft(pos, checked) == mousePressLeftUpTo(pos, checked, MaxPoints)

\* mousePressEvent with the right button at pos
mousePressRight(pos, checked) ==
    /\ variant \in Desktop
    /\ LET o == Op("remove_near", "A", pos, Missing, Missing, "none")
           i == Plain("mousePressEvent")
       IN  IF ~drawing_enabled \/ ~base_pixmap THEN Return(i, "ignored")
           ELSE IF ~checked THEN Return(i, "ignored")
           ELSE IF points = <<>> THEN Return(i, "ignored")
           ELSE /\ points' = remove_near(points, pos)
                /\ display' = update_display(base_pixmap, points',
                                             shifted_points, roi_lines)
                /\ op' = o
                /\ resp' = "ok"
                /\ UNCHANGED <<variant, roi_lines, shifted_points, base_pixmap,
                               drawing_enabled, pixel_um, depth_um>>

\* create_roi that empties the ROI before it reads the input fields
create_roi_clear_first(pixel_text, depth_text, style) ==
    /\ variant \in Desktop
    /\ variant = "main" => style = "linear"
    /\ LET o == Op("create_roi", "A", NoPos, Str(pixel_text), Str(depth_text),
                   style)
       IN  IF Len(points) < 2 THEN Return(o, "noop")
           ELSE IF ~Parses(pixel_text) \/ ~Parses(depth_text)
           THEN /\ roi_lines' = <<>>
                /\ shifted_points' = <<>>
                /\ op' = o
                /\ resp' = "invalid"
                /\ UNCHANGED <<variant, points, base_pixmap, drawing_enabled,
                               pixel_um, depth_um, display>>
           ELSE LET depth_pixels == TextVal(depth_text) * TextVal(pixel_text)
                IN  /\ IF style = "linear"
                       THEN /\ shifted_points' = <<>>
                            /\ roi_lines' = linear_roi(points, depth_pixels)
                       ELSE /\ shifted_points' =
                                   shift_points(points, depth_pixels)
                            /\ roi_lines' = curve_roi(points, shifted_points')
                    /\ display' = update_display(base_pixmap, points,
                                                 shifted_points', roi_lines')
                    /\ op' = o
                    /\ resp' = "ok"
                    /\ UNCHANGED <<variant, points, base_pixmap,
                                   drawing_enabled, pixel_um, depth_um>>

\* create_roi whose linear branch keeps the earlier offset points
create_roi_keep_offset(pixel_text, depth_text, style) ==
    /\ variant \in Desktop
    /\ variant = "main" => style = "linear"
    /\ LET o == Op("create_roi", "A", NoPos, Str(pixel_text), Str(depth_text),
                   style)
       IN  IF Len(points) < 2 THEN Return(o, "noop")
           ELSE IF ~Parses(pixel_text) \/ ~Parses(depth_text)
           THEN Return(o, "invalid")
           ELSE LET depth_pixels == TextVal(depth_text) * TextVal(pixel_text)
                IN  /\ IF style = "linear"
                       THEN /\ shifted_points' = shifted_points
                            /\ roi_lines' = linear_roi(points, depth_pixels)
                       ELSE /\ shifted_points' =
                                   shift_points(points, depth_pixels)
                            /\ roi_lines' = curve_roi(points, shifted_points')
                    /\ display' = update_display(base_pixmap, points,
                                                 shifted_points', roi_lines')
                    /\ op' = o
                    /\ resp' = "ok"
                    /\ UNCHANGED <<variant, points, base_pixmap,
                                   drawing_enabled, pixel_um, depth_um>>

\* create_roi with the texts of the two input fields and the radio button
create_roi(pixel_text, depth_text, style) ==
    /\ variant \in Desktop
    /\ variant = "main" => style = "linear"
    /\ LET o == Op("create_roi", "A", NoPos, Str(pixel_text), Str(depth_text),
                   style)
       IN  IF Len(points) < 2 THEN Return(o, "noop")
           ELSE IF ~Parses(pixel_text) \/ ~Parses(depth_text)
           THEN Return(o, "invalid")
           ELSE LET depth_pixels == TextVal(depth_text) * TextVal(pixel_text)
                IN  /\ IF style = "linear"
                       THEN /\ shifted_points' = <<>>
                            /\ roi_lines' = linear_roi(points, depth_pixels)
                       ELSE /\ shifted_points' =
                                   shift_points(points, depth_pixels)
                            /\ roi_lines' = curve_roi(points, shifted_points')
                    /\ display' = update_display(base_pixmap, points,
                                                 shifted_points', roi_lines')
                    /\ op' = o
                    /\ resp' = "ok"
                    /\ UNCHANGED <<variant, points, base_pixmap,
                                   drawing_enabled, pixel_um, depth_um>>

\* reset_roi
reset_roi ==
    /\ variant \in Desktop
    /\ roi_lines' = <<>>
    /\ display' = update_display(base_pixmap, points, shifted_points, <<>>)
    /\ op' = Plain("reset_roi")
    /\ resp' = "ok"
    /\ UNCHANGED <<variant, points, shifted_points, base_pixmap,
                   drawing_enabled, pixel_um, depth_um>>

\* clear_area that forgets the offset points
clear_area_keep_shifted == << <<>>, <<>>, shifted_points >>

\* clear_area: what it leaves in (points, roi_lines, shifted_points)
clear_area == << <<>>, <<>>, <<>> >>

\* delete_boundary: clear_area, then update_display
delete_boundary ==
    /\ variant = "app"
    /\ points' = clear_area[1]
    /\ roi_lines' = clear_area[2]
    /\ shifted_points' = clear_area[3]
    /\ display' = update_display(base_pixmap, points', shifted_points',
                                 roi_lines')
    /\ op' = Plain("delete_boundary")
    /\ resp' = "ok"
    /\ UNCHANGED <<variant, base_pixmap, drawing_enabled, pixel_um, depth_um>>

(* ------------- Gradio: src/web/app.py, src/web/processor.py ------------ *)

Gradio == {"web", "proc"}

\* draw_on_image: None without an image, else the drawing
draw_on_image(image, pts, roi) ==
    IF image THEN Draw(pts, <<>>, roi) ELSE NoDisplay

\* ImageProcessor.set_image
set_image ==
    /\ variant = "proc"
    /\ base_pixmap' = TRUE
    /\ op' = Plain("set_image")
    /\ resp' = "ok"
    /\ UNCHANGED <<variant, points, roi_lines, shifted_points,
                   drawing_enabled, pixel_um, depth_um, display>>

\* BezierSplineTool.add_point(image, evt) of src/web/app.py
add_pointUpTo(c, has_image, pos, cap) ==
    /\ variant = "web"
    /\ LET o == Op("add", c, pos, Missing, Missing, "none")
       IN  IF ~has_image
           THEN /\ display' = NoDisplay
                /\ op' = o
                /\ resp' = "ignored"
                /\ UNCHANGED <<variant, points, roi_lines, shifted_points,
                               base_pixmap, drawing_enabled, pixel_um,
                               depth_um>>
           ELSE /\ Len(points) < cap
                /\ base_pixmap' = TRUE
                /\ points' = Append(points, pos)
                /\ display' = draw_on_image(TRUE, points', roi_lines)
                /\ op' = o
                /\ resp' = "ok"
                /\ UNCHANGED <<variant, roi_lines, shifted_points,
                               drawing_enabled, pixel_um, depth_um>>

add_point(c, has_image, pos) == add_pointUpTo(c, has_image, pos, MaxPoints)

\* ImageProcessor.add_point(x, y)
proc_add_pointUpTo(pos, cap) ==
    /\ variant = "proc"
    /\ Len(points) < cap
    /\ points' = Append(points, pos)
    /\ display' = draw_on_image(base_pixmap, points', roi_lines)
    /\ op' = Op("add", "A", pos, Missing, Missing, "none")
    /\ resp' = "ok"
    /\ UNCHANGED <<variant, roi_lines, shifted_points, base_pixmap,
                   drawing_enabled, pixel_um, depth_um>>

proc_add_point(pos) == proc_add_pointUpTo(pos, MaxPoints)

\* reset_points
reset_points(c) ==
    /\ variant \in Gradio
    /\ variant = "proc" => c = "A"
    /\ points' = <<>>
    /\ display' = draw_on_image(base_pixmap, <<>>, roi_lines)
    /\ op' = Op("reset_points", c, NoPos, Missing, Missing, "none")
    /\ resp' = "ok"
    /\ UNCHANGED <<variant, roi_lines, shifted_points, base_pixmap,
                   drawing_enabled, pixel_um, depth_um>>

\* reset_roi of the Gradio variants
web_reset_roi(c) ==
    /\ variant \in Gradio
    /\ variant = "proc" => c = "A"
    /\ roi_lines' = <<>>
    /\ display' = draw_on_image(base_pixmap, points, <<>>)
    /\ op' = Op("reset_roi", c, NoPos, Missing, Missing, "none")
    /\ resp' = "ok"
    /\ UNCHANGED <<variant, points, shifted_points, base_pixmap,
                   drawing_enabled, pixel_um, depth_um>>

\* create_roi(pixel_um, depth_um) of the Gradio variants: the arguments are
\* numbers, or None for an emptied number field
web_create_roi(c, pv, dv) ==
    /\ variant \in Gradio
    /\ variant = "proc" => c = "A"
    /\ LET o == Op("create_roi", c, NoPos, pv, dv, "linear")
       IN  /\ op' = o
           /\ IF Len(points) < 2
              THEN /\ resp' = "noop"
                   /\ roi_lines' = roi_lines
              ELSE IF pv.t # "num" \/ dv.t # "num"
              THEN /\ resp' = "caught"
                   /\ roi_lines' = roi_lines
              ELSE /\ resp' = "ok"
                   /\ roi_lines' =
                          linear_roi(points, FloatVal(dv) * FloatVal(pv))
           /\ display' = draw_on_image(base_pixmap, points, roi_lines')
           /\ UNCHANGED <<variant, points, shifted_points, base_pixmap,
                          drawing_enabled, pixel_um, depth_um>>

(* ----------------------- Flask: src/web2/app.py ------------------------ *)

\* a response that carries no geometry
Answer(o, r) ==
    /\ op' = o
    /\ resp' = r
    /\ display' = NoDisplay

\* /upload: file is "missing", "invalid" or "image"
upload_image(c, file) ==
    /\ variant = "web2"
    /\ LET o == Op("upload", c, NoPos, Missing, Missing, "none")
       IN  IF file = "missing"
           THEN /\ Answer(o, "error400")
                /\ UNCHANGED <<variant, points, roi_lines, shifted_points,
                               base_pixmap, drawing_enabled, pixel_um,
                               depth_um>>
           ELSE IF file = "invalid"
           THEN /\ Answer(o, "error500")
                /\ UNCHANGED <<variant, points, roi_lines, shifted_points,
                               base_pixmap, drawing_enabled, pixel_um,
                               depth_um>>
           ELSE /\ base_pixmap' = TRUE
                /\ points' = <<>>
                /\ roi_lines' = <<>>
                /\ Answer(o, "ok")
                /\ UNCHANGED <<variant, shifted_points, drawing_enabled,
                               pixel_um, depth_um>>

\* /click: data holds x and y (valid) or lacks them
handle_clickUpTo(c, valid, pos, cap) ==
    /\ variant = "web2"
    /\ LET o == Op("add", c, IF valid THEN pos ELSE NoPos, Missing, Missing,
                   "none")
       IN  IF valid
           THEN /\ Len(points) < cap
                /\ points' = Append(points, pos)
                /\ Answer(o, "ok")
                /\ UNCHANGED <<variant, roi_lines, shifted_points, base_pixmap,
                               drawing_enabled, pixel_um, depth_um>>
           ELSE /\ Answer(o, "error400")
                /\ UNCHANGED <<variant, points, roi_lines, shifted_points,
                               base_pixmap, drawing_enabled, pixel_um,
                               depth_um>>

handle_click(c, valid, pos) == handle_clickUpTo(c, valid, pos, MaxPoints)

\* /remove_point
remove_point(c, valid, pos) ==
    /\ variant = "web2"
    /\ LET o == Op("remove_near", c, IF valid THEN pos ELSE NoPos, Missing,
                   Missing, "none")
       IN  IF valid
           THEN /\ points' = remove_point_keep(points, pos)
                /\ Answer(o, "ok")
                /\ UNCHANGED <<variant, roi_lines, shifted_points, base_pixmap,
                               drawing_enabled, pixel_um, depth_um>>
           ELSE /\ Answer(o, "error400")
                /\ UNCHANGED <<variant, points, roi_lines, shifted_points,
                               base_pixmap, drawing_enabled, pixel_um,
                               depth_um>>

\* /get_data
get_data(c) ==
    /\ variant = "web2"
    /\ display' = [points    |-> points,
                   spline    |-> IF Len(points) >= 2
                                 THEN create_bezier_spline_web2(points)
                                 ELSE NoCurve,
                   shifted   |-> NoCurve,
                   roi_lines |-> roi_lines,
                   drawn     |-> TRUE]
    /\ op' = Op("get_data", c, NoPos, Missing, Missing, "none")
    /\ resp' = "ok"
    /\ UNCHANGED <<variant, points, roi_lines, shifted_points, base_pixmap,
                   drawing_enabled, pixel_um, depth_um>>

\* /update_params: pixel_um is converted and stored before depth_um is
\* converted; only ValueError is caught
update_params(c, pv, dv) ==
    /\ variant = "web2"
    /\ LET o == Op("update_params", c, NoPos, pv, dv, "none")
       IN  IF pv.t = "missing" \/ dv.t = "missing"
           THEN /\ Answer(o, "error400")
                /\ UNCHANGED <<pixel_um, depth_um>>
           ELSE IF FloatOutcome(pv) # "ok"
           THEN /\ Answer(o, IF FloatOutcome(pv) = "ValueError"
                             THEN "error400" ELSE "fault")
                /\ UNCHANGED <<pixel_um, depth_um>>
           ELSE /\ pixel_um' = FloatVal(pv)
                /\ IF FloatOutcome(dv) = "ok"
                   THEN /\ depth_um' = FloatVal(dv)
                        /\ Answer(o, "ok")
                   ELSE /\ depth_um' = depth_um
                        /\ Answer(o, IF FloatOutcome(dv) = "ValueError"
                                     THEN "error400" ELSE "fault")
    /\ UNCHANGED <<variant, points, roi_lines, shifted_points, base_pixmap,
                   drawing_enabled>>

\* /create_roi that drops the old ROI when there are too few points
flask_create_roi_drop(c) ==
    /\ variant = "web2"
    /\ LET o == Op("create_roi", c, NoPos, Missing, Missing, "linear")
       IN  IF Len(points) < 2
           THEN /\ Answer(o, "error400")
                /\ roi_lines' = <<>>
           ELSE /\ roi_lines' = linear_roi(points, depth_um * pixel_um)
                /\ Answer(o, "ok")
    /\ UNCHANGED <<variant, points, shifted_points, base_pixmap,
                   drawing_enabled, pixel_um, depth_um>>

\* /create_roi with the stored pixel_um and depth_um
flask_create_roi(c) ==
    /\ variant = "web2"
    /\ LET o == Op("create_roi", c, NoPos, Missing, Missing, "linear")
       IN  IF Len(points) < 2
           THEN /\ Answer(o, "error400")
                /\ roi_lines' = roi_lines
           ELSE /\ roi_lines' = linear_roi(points, depth_um * pixel_um)
                /\ Answer(o, "ok")
    /\ UNCHANGED <<variant, points, shifted_points, base_pixmap,
                   drawing_enabled, pixel_um, depth_um>>

\* /reset_roi
flask_reset_roi(c) ==
    /\ variant = "web2"
    /\ roi_lines' = <<>>
    /\ Answer(Op("reset_roi", c, NoPos, Missing, Missing, "none"), "ok")
    /\ UNCHANGED <<variant, points, shifted_points, base_pixmap,
                   drawing_enabled, pixel_um, depth_um>>

(* ------------------------------ Next ----------------------------------- *)

\* texts tried in the pixel/um and depth fields of the desktop variants
ParamTexts == {<<Txt1, Txt5>>, <<Txt1, TxtNeg>>,
               <<TxtBad, Txt5>>, <<Txt1, TxtBad>>}

\* values of the two Gradio number fields
ParamNumbers == {<<Num(Txt1), Num(Txt5)>>, <<Num(Txt1), Num(TxtNeg)>>,
                 <<Null, Num(Txt5)>>, <<Num(Txt1), Null>>}

\* JSON bodies of /update_params
ParamJson == {<<Num(Txt2), Str(Txt10)>>,
              <<Str(TxtBad), Num(Txt5)>>, <<Num(Txt2), Str(TxtBad)>>,
              <<Null, Num(Txt5)>>, <<Missing, Num(Txt5)>>}

Styles == {"linear", "curve"}

DesktopNext ==
    \/ \E chosen \in BOOLEAN : load_image(chosen)
    \/ \E pos \in ClickPositions, checked \in BOOLEAN :
          mousePressLeft(pos, checked)
    \/ \E pos \in RemovePositions, checked \in BOOLEAN :
          mousePressRight(pos, checked)
    \/ \E pr \in ParamTexts, style \in Styles :
          create_roi(pr[1], pr[2], style)
    \/ reset_roi
    \/ delete_boundary

ProcNext ==
    \/ set_image
    \/ \E pos \in Positions : proc_add_point(pos)

GradioNext(cs) ==
    \/ \E c \in cs, has_image \in BOOLEAN, pos \in Positions :
          add_point(c, has_image, pos)
    \/ \E c \in cs : reset_points(c)
    \/ \E c \in cs : web_reset_roi(c)
    \/ \E c \in cs, pr \in ParamNumbers : web_create_roi(c, pr[1], pr[2])

FlaskNext(cs) ==
    \/ \E c \in cs, file \in {"missing", "invalid", "image"} :
          upload_image(c, file)
    \/ \E c \in cs, valid \in BOOLEAN, pos \in Positions :
          handle_click(c, valid, pos)
    \/ \E c \in cs, valid \in BOOLEAN, pos \in RemovePositions :
          remove_point(c, valid, pos)
    \/ \E c \in cs : get_data(c)
    \/ \E c \in cs, pr \in ParamJson : update_params(c, pr[1], pr[2])
    \/ \E c \in cs : flask_create_roi(c)
    \/ \E c \in cs : flask_reset_roi(c)

\* one user working with one of the five variants
Next == DesktopNext \/ ProcNext \/ GradioNext({"A"}) \/ FlaskNext({"A"})

Spec == Init /\ [][Next]_vars

(* ------------- the server variants with two clients -------------------- *)

InitClients == Init /\ variant \in {"web", "web2"}

NextClients == GradioNext(Clients) \/ FlaskNext(Clients)

SpecClients == InitClients /\ [][NextClients]_vars

(* ------- offset construction on every boundary a user can draw --------- *)

CreatePositions == Positions \cup {Pt(20, 0)}

BoundarySeqs == UNION {[1..n -> CreatePositions] : n \in 0..MaxLen}

\* the tool right after a user has loaded an image and clicked the points
\* of pts one after the other, before any ROI was requested
InitCreate ==
    /\ variant \in Variants
    /\ points \in BoundarySeqs
    /\ roi_lines = <<>>
    /\ shifted_points = <<>>
    /\ base_pixmap = (variant # "web" \/ points # <<>>)
    /\ drawing_enabled = (variant \in Desktop)
    /\ pixel_um = InitPixelUm
    /\ depth_um = InitDepthUm
    /\ display = IF variant = "web2" THEN NoDisplay
                 ELSE IF variant \in Gradio /\ points = <<>> THEN NoDisplay
                 ELSE Draw(points, <<>>, <<>>)
    /\ op = IF points # <<>>
            THEN Op("add", "A", points[Len(points)], Missing, Missing, "none")
            ELSE IF variant \in Desktop THEN Plain("load_image")
            ELSE IF variant = "proc" THEN Plain("set_image")
            ELSE IF variant = "web2"
            THEN Op("upload", "A", NoPos, Missing, Missing, "none")
            ELSE Plain("init")
    /\ resp = "ok"

\* SpecCreate also tries a scale other than 1
CreateTexts == ParamTexts \cup {<<Txt2, Txt5>>}

CreateNumbers == ParamNumbers \cup {<<Num(Txt2), Num(Txt5)>>}

NextCreate ==
    \/ \E pr \in CreateTexts, style \in Styles :
          create_roi(pr[1], pr[2], style)
    \/ reset_roi
    \/ delete_boundary
    \/ \E pr \in CreateNumbers : web_create_roi("A", pr[1], pr[2])
    \/ web_reset_roi("A")
    \/ \E pr \in ParamJson : update_params("A", pr[1], pr[2])
    \/ flask_create_roi("A")
    \/ flask_reset_roi("A")

SpecCreate == InitCreate /\ [][NextCreate]_vars

(* ------ a session from the empty tool on a horizontal line of clicks ---- *)

ScenarioPositions == {Pt(0, 0), Pt(10, 0), Pt(20, 0)}

\* the user loads an image, clicks up to MaxLen points, sets scale 1 and
\* depth 5 and asks for the ROI
NextScenario ==
    \/ load_image(TRUE)
    \/ set_image
    \/ upload_image("A", "image")
    \/ \E pos \in ScenarioPositions : mousePressLeftUpTo(pos, TRUE, MaxLen)
    \/ \E pos \in ScenarioPositions : add_pointUpTo("A", TRUE, pos, MaxLen)
    \/ \E pos \in ScenarioPositions : proc_add_pointUpTo(pos, MaxLen)
    \/ \E pos \in ScenarioPositions :
          handle_clickUpTo("A", TRUE, pos, MaxLen)
    \/ update_params("A", Num(Txt1), Str(Txt5))
    \/ \E style \in Styles : create_roi(Txt1, Txt5, style)
    \/ web_create_roi("A", Num(Txt1), Num(Txt5))
    \/ flask_create_roi("A")

SpecScenario == Init /\ [][NextScenario]_vars

(* ------------- editing the points of a drawn boundary ------------------ *)

\* the user adds and removes points of a boundary of up to MaxLen points
NextEdit ==
    \/ \E pos \in CreatePositions, checked \in BOOLEAN :
          mousePressLeftUpTo(pos, checked, MaxLen)
    \/ \E pos \in CreatePositions, checked \in BOOLEAN :
          mousePressRight(pos, checked)
    \/ \E pos \in CreatePositions : add_pointUpTo("A", TRUE, pos, MaxLen)
    \/ \E pos \in CreatePositions : proc_add_pointUpTo(pos, MaxLen)
    \/ reset_points("A")
    \/ \E valid \in BOOLEAN, pos \in CreatePositions :
          handle_clickUpTo("A", valid, pos, MaxLen)
    \/ \E valid \in BOOLEAN, pos \in CreatePositions :
          remove_point("A", valid, pos)

SpecEdit == InitCreate /\ [][NextEdit]_vars

(* ============================ claims =================================== *)

\* the value float() gives a request parameter, and whether it gives one
Unparseable(v) == v.t \in {"str", "num", "null"} /\ FloatOutcome(v) # "ok"

NonPositive(v) == v.t \in {"str", "num"} /\ FloatOutcome(v) = "ok"
                  /\ FloatVal(v) <= 0

\* depth_um * pixel_um of the create_roi request recorded in op
UsedDepthPixels ==
    IF variant = "web2" THEN depth_um * pixel_um
    ELSE FloatVal(op.depth) * FloatVal(op.pixel)

\* unit normal of the current boundary times the depth of the last request
Offset ==
    [x |-> unit_normal(points).x * UsedDepthPixels,
     y |-> unit_normal(points).y * UsedDepthPixels]

Plus(p, d) == [x |-> p.x + d.x, y |-> p.y + d.y]

\* C1: reset_roi right after a successful create_roi keeps the points and
\* leaves no connecting segment and no offset point sequence, neither in
\* the tool nor in what is drawn.
C1_ResetRestoresDrafting ==
    [][(op.name = "create_roi" /\ resp = "ok" /\ op'.name = "reset_roi")
        => /\ points' = points
           /\ roi_lines' = <<>>
           /\ shifted_points' = <<>>
           /\ display'.roi_lines = <<>>
           /\ display'.shifted = NoCurve]_vars

\* C2: in src/app.py an offset boundary that is present has as many points
\* as the current primary boundary.
C2_OffsetMatchesPrimary ==
    (variant = "app" /\ shifted_points # <<>>)
        => Len(shifted_points) = Len(points)

\* C3: a remove-near request at position p keeps exactly the points whose
\* Manhattan distance to p is greater than the tolerance, in their order.
C3_RemoveExactL1 ==
    [][(op'.name = "remove_near" /\ resp' = "ok")
        => points' = SelectSeq(points,
               LAMBDA q : Abs(q.x - op'.pos.x) + Abs(q.y - op'.pos.y)
                              > Tolerance * Scale)]_vars

\* C4 as stated: a create_roi request whose scale or depth is unparseable or
\* non-positive leaves points, roi_lines and shifted_points as they were and
\* raises no fault.
C4_BadParamsAbort ==
    [][(/\ op'.name = "create_roi"
        /\ \/ Unparseable(op'.pixel) \/ Unparseable(op'.depth)
           \/ NonPositive(op'.pixel) \/ NonPositive(op'.depth))
        => (UNCHANGED core /\ resp' # "fault")]_vars

\* C4 amended: a create_roi request whose scale or depth is unparseable
\* leaves points, roi_lines and shifted_points as they were and raises no
\* fault; a request on two or more points whose scale and depth both parse
\* is carried out, also when one of them is not positive.
C4_UnparseableAborts ==
    [][(op'.name = "create_roi" /\ op'.pixel.t # "missing")
        => IF Unparseable(op'.pixel) \/ Unparseable(op'.depth)
           THEN UNCHANGED core /\ resp' \in {"noop", "invalid", "caught"}
           ELSE Len(points) >= 2 => resp' = "ok"]_vars

C4_Witness ==
    /\ op.name = "create_roi"
    /\ Unparseable(op.depth)
    /\ resp = "invalid"
    /\ Len(points) >= 2
    /\ roi_lines # <<>>
    /\ shifted_points # <<>>

\* C5 as stated: with fewer than 2 points create_roi changes nothing, no
\* curve is drawn and no error is reported, in every variant.
C5_FewPointsSilent ==
    [][(op'.name = "create_roi" /\ Len(points) < 2)
        => /\ UNCHANGED core
           /\ display'.spline = NoCurve
           /\ resp' = "noop"]_vars

\* C5 amended: with fewer than 2 points create_roi changes nothing and no
\* curve is drawn, in every variant; the desktop and Gradio variants report
\* no error, the Flask variant answers with a 400 error.
C5_FewPointsNoChange ==
    [][(op'.name = "create_roi" /\ Len(points) < 2)
        => /\ UNCHANGED core
           /\ display'.spline = NoCurve
           /\ create_bezier_spline(points') = NoCurve
           /\ create_bezier_spline_web2(points') = NoCurve
           /\ resp' = IF variant = "web2" THEN "error400" ELSE "noop"]_vars

C5_Witness ==
    /\ op.name = "create_roi"
    /\ Len(points) = 1
    /\ roi_lines # <<>>
    /\ resp = "error400"

\* C6: delete_boundary leaves no points, no ROI segments and no offset
\* points, whatever the state before it, and draws none of them.
C6_ClearLeadsToEmpty ==
    [][op'.name = "delete_boundary"
        => /\ points' = <<>>
           /\ roi_lines' = <<>>
           /\ shifted_points' = <<>>
           /\ base_pixmap => display' = Draw(<<>>, <<>>, <<>>)]_vars

C6_Witness ==
    /\ op.name = "delete_boundary"
    /\ resp = "ok"
    /\ display.drawn
    /\ points = <<>>

\* C7: after a successful linear-style create_roi the ROI is the three
\* segments first -> first + normal * depth_pixels -> last + normal *
\* depth_pixels -> last, with depth_pixels = depth_um * pixel_um, and no
\* offset point sequence is left.
C7_LinearThreeSegments ==
    (op.name = "create_roi" /\ resp = "ok" /\ op.style = "linear")
        => LET first == points[1]
               last  == points[Len(points)]
           IN  /\ Len(points) >= 2
               /\ roi_lines = << <<first, Plus(first, Offset)>>,
                                 <<Plus(first, Offset), Plus(last, Offset)>>,
                                 <<Plus(last, Offset), last>> >>
               /\ shifted_points = <<>>

C7_Witness ==
    /\ op.name = "create_roi" /\ resp = "ok" /\ op.style = "linear"
    /\ Len(points) = 3
    /\ points[2] # points[3]
    /\ unit_normal(points).x # 0
    /\ UsedDepthPixels = 10

\* C8: after a successful parallel-curve create_roi the offset sequence has
\* one point per primary point, each moved by normal * depth_pixels, and
\* the ROI is the two connectors at the ends; the horizontal boundary
\* (0,0), (10,0), (20,0) with scale 1 and depth 5 moves up by 5 pixels.
C8_ParallelOffsets ==
    (op.name = "create_roi" /\ resp = "ok" /\ op.style = "curve")
        => LET n == Len(points)
           IN  /\ n >= 2
               /\ Len(shifted_points) = n
               /\ \A i \in 1..n : shifted_points[i] = Plus(points[i], Offset)
               /\ roi_lines = << <<points[1], shifted_points[1]>>,
                                 <<points[n], shifted_points[n]>> >>
               /\ (/\ points = <<Pt(0, 0), Pt(10, 0), Pt(20, 0)>>
                   /\ op.pixel = Str(Txt1) /\ op.depth = Str(Txt5))
                  => /\ shifted_points = <<Pt(0, 5), Pt(10, 5), Pt(20, 5)>>
                     /\ roi_lines = << <<Pt(0, 0), Pt(0, 5)>>,
                                       <<Pt(20, 0), Pt(20, 5)>> >>

C8_Witness ==
    /\ op.name = "create_roi" /\ resp = "ok" /\ op.style = "curve"
    /\ points = <<Pt(0, 0), Pt(10, 0), Pt(20, 0)>>
    /\ op.pixel = Str(Txt1) /\ op.depth = Str(Txt5)
    /\ Len(shifted_points) = 3

\* C9: whenever a curve is produced for two or more points on which the
\* spline fit fails, it is the polyline through those points in their order.
C9_FallbackPolyline ==
    (display.drawn /\ Len(display.points) >= 2 /\ ~splprep_ok(display.points))
        => display.spline = Polyline(display.points)

\* C10: a request of client B changes nothing of what client A observes:
\* the points, the ROI and the two parameters.
C10_ClientsIndependent ==
    [][op'.client = "B"
        => UNCHANGED <<points, roi_lines, pixel_um, depth_um>>]_vars

\* C11: starting from the empty tool, after the points (0,0), (10,0), (20,0)
\* were added in that order, a linear-style create_roi with scale 1 and depth
\* 5 finds slope 0 and normal (0,1) and leaves the segments (0,0)-(0,5),
\* (0,5)-(20,5), (20,5)-(20,0), in every variant.
C11_EndToEnd ==
    (/\ op.name = "create_roi" /\ resp = "ok" /\ op.style = "linear"
     /\ points = <<Pt(0, 0), Pt(10, 0), Pt(20, 0)>>
     /\ UsedDepthPixels = 5)
        => /\ slope(points) = 0
           /\ unit_normal(points) = [x |-> 0, y |-> Scale]
           /\ roi_lines = << <<Pt(0, 0), Pt(0, 5)>>,
                             <<Pt(0, 5), Pt(20, 5)>>,
                             <<Pt(20, 5), Pt(20, 0)>> >>

C11_Witness ==
    /\ variant = "web2"
    /\ op.name = "create_roi" /\ resp = "ok"
    /\ points = <<Pt(0, 0), Pt(10, 0), Pt(20, 0)>>
    /\ pixel_um = 1 /\ depth_um = 5
    /\ Len(roi_lines) = 3

\* every coordinate of the constructed ROI is a number
AllFinite ==
    /\ \A i \in 1..Len(roi_lines) : \A j \in 1..2 :
           roi_lines[i][j].x \in Int /\ roi_lines[i][j].y \in Int
    /\ \A i \in 1..Len(shifted_points) :
           shifted_points[i].x \in Int /\ shifted_points[i].y \in Int

\* C12: after a successful create_roi on any boundary of two or more points
\* the normal has length 1 within the fixed-point rounding, a boundary whose
\* points all have the same x gets slope 0 and the normal (0,1), and every
\* coordinate of the ROI is a number.
C12_UnitNormal ==
    (op.name = "create_roi" /\ resp = "ok")
        => LET un == unit_normal(points)
           IN  /\ Len(points) >= 2
               /\ Abs(un.x * un.x + un.y * un.y - Scale * Scale) <= 2 * Scale
               /\ (\A i \in 1..Len(points) : points[i].x = points[1].x)
                      => slope(points) = 0 /\ un = [x |-> 0, y |-> Scale]
               /\ roi_lines[1][2] = Plus(points[1],
                                         [x |-> un.x * UsedDepthPixels,
                                          y |-> un.y * UsedDepthPixels])
               /\ AllFinite

C12_Witness ==
    /\ op.name = "create_roi" /\ resp = "ok"
    /\ points = <<Pt(10, 0), Pt(10, 8)>>
    /\ roi_lines[1][2] = Pt(10, UsedDepthPixels)

\* C13: whenever a curve is produced for two or more points, fitted or
\* fallen back, it is not empty and it starts at the first and ends at the
\* last of those points.
C13_CurveEndpoints ==
    (display.drawn /\ Len(display.points) >= 2)
        => /\ display.spline.n >= 2
           /\ display.spline.pts # <<>>
           /\ display.spline.pts[1] = display.points[1]
           /\ display.spline.pts[Len(display.spline.pts)]
                  = display.points[Len(display.points)]

\* a is b with some of its elements left out, the others in their order
RECURSIVE IsSubSeq(_, _)
IsSubSeq(a, b) ==
    IF a = <<>> THEN TRUE
    ELSE IF b = <<>> THEN FALSE
    ELSE IF Head(a) = Head(b) THEN IsSubSeq(Tail(a), Tail(b))
    ELSE IsSubSeq(a, Tail(b))

\* C14: a remove-near request leaves a sequence that a second request at the
\* same position does not change, the surviving points keep their order,
\* and on the empty sequence the request leaves it empty without a fault.
C14_RemoveIdempotent ==
    [][/\ (op'.name = "remove_near" /\ resp' = "ok")
           => /\ IsSubSeq(points', points)
              /\ variant \in Desktop
                    => remove_near(points', op'.pos) = points'
              /\ variant = "web2"
                    => remove_point_keep(points', op'.pos) = points'
       /\ (/\ op.name = "remove_near" /\ resp = "ok"
           /\ op'.name = "remove_near" /\ resp' = "ok"
           /\ op'.pos = op.pos)
           => points' = points
       /\ (op'.name \in {"remove_near", "mousePressEvent"} /\ points = <<>>)
           => points' = <<>> /\ resp' # "fault"]_vars

C14_Witness ==
    /\ variant \in Desktop
    /\ op.name = "remove_near" /\ resp = "ok"
    /\ op.pos = Pt(0, 0)
    /\ points = <<Pt(10, 8), Pt(20, 0)>>

\* C15: loading a new image (load_image, /upload) leaves no primary points,
\* no ROI segments and no offset points, and draws none of them on the new
\* image.
C15_LoadReinitializes ==
    [][(op'.name \in {"load_image", "upload"} /\ resp' = "ok")
        => /\ points' = <<>>
           /\ roi_lines' = <<>>
           /\ shifted_points' = <<>>
           /\ display'.drawn
                 => /\ display'.points = <<>>
                    /\ display'.roi_lines = <<>>
                    /\ display'.shifted = NoCurve]_vars

\* C16: an accepted point-add appends the clicked point at the end: the
\* sequence grows by one, the earlier points keep their values and order, a
\* point equal to an earlier one is appended all the same, and roi_lines
\* and shifted_points are left as they were.
C16_AddAppends ==
    [][(op'.name = "add" /\ resp' = "ok")
        => /\ Len(points') = Len(points) + 1
           /\ SubSeq(points', 1, Len(points)) = points
           /\ points'[Len(points')] = op'.pos
           /\ roi_lines' = roi_lines
           /\ shifted_points' = shifted_points]_vars

C16_Witness ==
    /\ op.name = "add" /\ resp = "ok"
    /\ Len(points) = 3
    /\ points[1] # points[2]
    /\ points[3] = points[1]
    /\ roi_lines # <<>>
    /\ shifted_points # <<>>

\* C17: in src/app.py, for the points, scale and depth of a successful
\* create_roi, the linear style and the parallel-curve style join the same
\* point pairs at the two ends: first with shifted first, last with shifted
\* last; the floor of the linear style runs between the two end points of
\* the offset sequence, whose interior points only the curve style has.
C17_ConnectorsAgree ==
    (variant = "app" /\ op.name = "create_roi" /\ resp = "ok")
        => LET n   == Len(points)
               lin == linear_roi(points, UsedDepthPixels)
               shp == shift_points(points, UsedDepthPixels)
               cur == curve_roi(points, shp)
           IN  /\ roi_lines = IF op.style = "linear" THEN lin ELSE cur
               /\ op.style = "curve" => shifted_points = shp
               /\ lin[1] = cur[1]
               /\ lin[3] = <<cur[2][2], cur[2][1]>>
               /\ lin[2] = <<shp[1], shp[n]>>
               /\ Len(lin) = 3 /\ Len(cur) = 2 /\ Len(shp) = n

C17_Witness ==
    /\ variant = "app"
    /\ op.name = "create_roi" /\ resp = "ok" /\ op.style = "curve"
    /\ Len(points) = 3
    /\ unit_normal(points).x # 0
    /\ roi_lines[2] = <<points[3], shifted_points[3]>>
    /\ shifted_points[2] # points[2]

\* C18: in every reachable state a constructed ROI (segments or offset
\* points) comes with at least 2 primary points, and the first segment
\* starts at the current first point and the last segment has the current
\* last point as one of its ends.
C18_RoiFitsPoints ==
    (roi_lines # <<>> \/ shifted_points # <<>>)
        => /\ Len(points) >= 2
           /\ roi_lines # <<>>
                 => /\ roi_lines[1][1] = points[1]
                    /\ points[Len(points)] \in
                          {roi_lines[Len(roi_lines)][1],
                           roi_lines[Len(roi_lines)][2]}

\* C19: a /update_params request that is answered with an error leaves both
\* pixel_um and depth_um as they were, and the error is the 400 validation
\* error.
C19_ParamsAllOrNothing ==
    [][(op'.name = "update_params" /\ resp' # "ok")
        => /\ pixel_um' = pixel_um
           /\ depth_um' = depth_um
           /\ resp' = "error400"]_vars

\* C20: in src/app.py roi_lines holds 0, 2 or 3 segments, the 3 linear
\* segments never come with offset points, and the drawing never shows
\* the 3 segments together with an offset curve.
C20_StylesExclusive ==
    variant = "app"
        => /\ Len(roi_lines) \in {0, 2, 3}
           /\ Len(roi_lines) = 3 => shifted_points = <<>>
           /\ (display.drawn /\ Len(display.roi_lines) = 3)
                 => display.shifted = NoCurve

C20_Witness ==
    /\ variant = "app"
    /\ op.name = "create_roi" /\ resp = "ok" /\ op.style = "linear"
    /\ Len(roi_lines) = 3
    /\ shifted_points = <<>>
    /\ display.drawn /\ display.roi_lines = roi_lines

====
